---- MODULE Spec2Model ----
(***************************************************************************)
(* Model of the provider gateways of promptcraft-library:                  *)
(*   app/providers/openrouter_openai.py   call_chat_completions            *)
(*   app/embeddings/providers.py          embed_texts (application module)  *)
(*   scripts/embedding_benchmark.py       embed_texts (benchmark script)    *)
(* and of the endpoints of app/main.py that validate a parent record or    *)
(* call the chat gateway, over the store of app/crud.py.                   *)
(* A gateway module is loaded (its client is constructed from the          *)
(* environment), invoked once, the provider replies or fails, and the      *)
(* gateway returns a result or raises.  The application serves one         *)
(* request.                                                                *)
(***************************************************************************)
EXTENDS Integers, Sequences, FiniteSets, TLC

(***************************************************************************)
(* Python values.  Every value is a record of the same four fields so that *)
(* any two values can be compared:                                         *)
(*   t      the type: "none", "str", "num", "list", "dict", "obj"          *)
(*   s      the characters of a str, the digits of a number                *)
(*   items  the elements of a list                                         *)
(*   kv     the entries [k, v] of a dict, in insertion order; keys are the *)
(*          JSON field names, written as TLA+ strings                      *)
(* "obj" is an opaque object: not iterable, not subscriptable, no .get.    *)
(***************************************************************************)
None == [t |-> "none", s |-> <<>>, items |-> <<>>, kv |-> <<>>]

Str(chars) == [t |-> "str", s |-> chars, items |-> <<>>, kv |-> <<>>]

Num(digits) == [t |-> "num", s |-> digits, items |-> <<>>, kv |-> <<>>]

List(elems) == [t |-> "list", s |-> <<>>, items |-> elems, kv |-> <<>>]

Dict(entries) == [t |-> "dict", s |-> <<>>, items |-> <<>>, kv |-> entries]

Obj == [t |-> "obj", s |-> <<>>, items |-> <<>>, kv |-> <<>>]

KV(key, val) == [k |-> key, v |-> val]

EmptyStr == Str(<<>>)

EmptyList == List(<<>>)

EmptyDict == Dict(<<>>)

IsStr(x) == x.t = "str"

IsList(x) == x.t = "list"

IsDict(x) == x.t = "dict"

\* bool(x): None, "", 0, [] and {} are falsy, everything else is truthy.
Truthy(x) ==
  CASE x.t = "none" -> FALSE
    [] x.t = "str"  -> x.s # <<>>
    [] x.t = "num"  -> x.s \notin {<<"0">>, <<"0", ".", "0">>}
    [] x.t = "list" -> x.items # <<>>
    [] x.t = "dict" -> x.kv # <<>>
    [] OTHER        -> TRUE

\* a or b
Or(a, b) == IF Truthy(a) THEN a ELSE b

\* key in d, for a dict d
Has(d, key) == \E i \in 1..Len(d.kv) : d.kv[i].k = key

\* d.get(key, default), for a dict d
GetOr(d, key, default) ==
  IF Has(d, key)
  THEN d.kv[CHOOSE i \in 1..Len(d.kv) : d.kv[i].k = key].v
  ELSE default

\* d.get(key)
Get(d, key) == GetOr(d, key, None)

\* d[key] = val: the entry is replaced in place, or appended.
DictSet(d, key, val) ==
  IF Has(d, key)
  THEN Dict([i \in 1..Len(d.kv) |-> IF d.kv[i].k = key THEN KV(key, val) ELSE d.kv[i]])
  ELSE Dict(Append(d.kv, KV(key, val)))

\* d.update(e): the entries of e, in order, override or extend those of d.
RECURSIVE DictUpdateEntries(_, _)
DictUpdateEntries(d, entries) ==
  IF entries = <<>> THEN d
  ELSE DictUpdateEntries(DictSet(d, Head(entries).k, Head(entries).v), Tail(entries))

DictUpdate(d, e) == DictUpdateEntries(d, e.kv)

\* float(x) of a number: an int gains a fractional part.
PyFloat(x) ==
  IF \E i \in 1..Len(x.s) : x.s[i] = "." THEN x ELSE Num(x.s \o <<".", "0">>)

\* The characters of the field names the gateways look up.
KeyChars ==
  [choices |-> <<"c","h","o","i","c","e","s">>,
   message |-> <<"m","e","s","s","a","g","e">>,
   content |-> <<"c","o","n","t","e","n","t">>,
   text |-> <<"t","e","x","t">>,
   type |-> <<"t","y","p","e">>,
   usage |-> <<"u","s","a","g","e">>,
   meta |-> <<"m","e","t","a">>,
   prompt_tokens |-> <<"p","r","o","m","p","t","_","t","o","k","e","n","s">>,
   data |-> <<"d","a","t","a">>,
   embedding |-> <<"e","m","b","e","d","d","i","n","g">>,
   vector |-> <<"v","e","c","t","o","r">>,
   embedding_vector |-> <<"e","m","b","e","d","d","i","n","g","_","v","e","c","t","o","r">>,
   values |-> <<"v","a","l","u","e","s">>,
   index |-> <<"i","n","d","e","x">>,
   role |-> <<"r","o","l","e">>,
   model |-> <<"m","o","d","e","l">>,
   messages |-> <<"m","e","s","s","a","g","e","s">>,
   temperature |-> <<"t","e","m","p","e","r","a","t","u","r","e">>,
   max_tokens |-> <<"m","a","x","_","t","o","k","e","n","s">>,
   top_p |-> <<"t","o","p","_","p">>]

\* needle occurs in hay as a contiguous run (str.__contains__)
IsSubstring(needle, hay) ==
  \E i \in 0..(Len(hay) - Len(needle)) :
    \A j \in 1..Len(needle) : hay[i + j] = needle[j]

\* `key in x` raises TypeError when x is not a container.
InRaises(x) == x.t \in {"none", "num", "obj"}

\* `key in x` for a str key: dict membership, list element, substring.
In(key, x) ==
  CASE x.t = "dict" -> Has(x, key)
    [] x.t = "list" -> \E i \in 1..Len(x.items) : x.items[i] = Str(KeyChars[key])
    [] x.t = "str"  -> IsSubstring(KeyChars[key], x.s)
    [] OTHER        -> FALSE

\* The concatenation of a sequence of character sequences, sep between them.
RECURSIVE JoinChars(_, _)
JoinChars(seqs, sep) ==
  IF seqs = <<>> THEN <<>>
  ELSE IF Len(seqs) = 1 THEN seqs[1]
  ELSE seqs[1] \o sep \o JoinChars(Tail(seqs), sep)

\* repr(x): None, 'abc', 7, [a, b], {'k': v}
RECURSIVE PyRepr(_)
PyRepr(x) ==
  CASE x.t = "none" -> <<"N","o","n","e">>
    [] x.t = "str"  -> <<"'">> \o x.s \o <<"'">>
    [] x.t = "num"  -> x.s
    [] x.t = "list" ->
         <<"[">> \o JoinChars([i \in 1..Len(x.items) |-> PyRepr(x.items[i])], <<",", " ">>)
                 \o <<"]">>
    [] x.t = "dict" ->
         <<"{">> \o JoinChars([i \in 1..Len(x.kv) |->
                                 <<"'">> \o KeyChars[x.kv[i].k] \o <<"'", ":", " ">>
                                         \o PyRepr(x.kv[i].v)],
                              <<",", " ">>)
                 \o <<"}">>
    [] OTHER        -> <<"<","o","b","j","e","c","t",">">>

\* str(x): a str is itself, anything else its repr.
PyStr(x) == IF IsStr(x) THEN x ELSE Str(PyRepr(x))

\* The outcome of evaluating an expression: a value, or a raised exception.
Ok(val) == [exc |-> "", val |-> val]

Raise(cls) == [exc |-> cls, val |-> None]

(***************************************************************************)
(* Chat gateway: response normalization                                    *)
(* (app/providers/openrouter_openai.py, lines 78-116).                     *)
(***************************************************************************)

\* x[0]: the exception it raises, "" when it raises none.
Index0Exc(x) ==
  CASE x.t = "list" -> IF x.items = <<>> THEN "IndexError" ELSE ""
    [] x.t = "str"  -> IF x.s = <<>> THEN "IndexError" ELSE ""
    [] x.t = "dict" -> "KeyError"
    [] OTHER        -> "TypeError"

\* x[0] of a non-empty list or str.
Index0(x) == IF x.t = "list" THEN x.items[1] ELSE Str(<<x.s[1]>>)

\* The parts collected from a content list: chunk["text"] of every dict chunk
\* that has the key, every str chunk itself, nothing for any other chunk.
RECURSIVE ContentParts(_)
ContentParts(chunks) ==
  IF chunks = <<>> THEN <<>>
  ELSE LET chunk == Head(chunks)
           rest == ContentParts(Tail(chunks))
       IN IF IsDict(chunk) /\ Has(chunk, "text") THEN <<Get(chunk, "text")>> \o rest
          ELSE IF IsStr(chunk) THEN <<chunk>> \o rest
          ELSE rest

\* Variant of JoinParts: the parts are joined with a space between them.
JoinPartsSpaced(parts) ==
  IF \A i \in 1..Len(parts) : IsStr(parts[i])
  THEN Ok(Str(JoinChars([i \in 1..Len(parts) |-> parts[i].s], <<" ">>)))
  ELSE Raise("TypeError")

\* "".join(parts): TypeError unless every part is a str.
JoinParts(parts) ==
  IF \A i \in 1..Len(parts) : IsStr(parts[i])
  THEN Ok(Str(JoinChars([i \in 1..Len(parts) |-> parts[i].s], <<>>)))
  ELSE Raise("TypeError")

\* chars without its leading and trailing spaces (str.strip).
RECURSIVE Strip(_)
Strip(chars) ==
  IF chars = <<>> THEN <<>>
  ELSE IF Head(chars) = " " THEN Strip(Tail(chars))
  ELSE IF chars[Len(chars)] = " " THEN Strip(SubSeq(chars, 1, Len(chars) - 1))
  ELSE chars

\* Variant of MessageText: a str content is trimmed, and an empty one is
\* treated like an absent one.
MessageTextTrimmed(message) ==
  LET msg_content == Get(message, "content")
  IN IF IsStr(msg_content) /\ Strip(msg_content.s) # <<>> THEN Ok(Str(Strip(msg_content.s)))
     ELSE IF IsList(msg_content) THEN JoinParts(ContentParts(msg_content.items))
     ELSE Ok(PyStr(IF IsStr(msg_content) THEN None ELSE msg_content))

\* The text of choice0["message"], a dict.
MessageText(message) ==
  LET msg_content == Get(message, "content")
  IN IF IsStr(msg_content) THEN Ok(msg_content)
     ELSE IF IsList(msg_content) THEN JoinParts(ContentParts(msg_content.items))
     ELSE Ok(PyStr(msg_content))

\* Variant of LegacyText: choice0.get("text"), with no default.
LegacyTextNoDefault(choice0) ==
  IF IsDict(choice0) THEN Ok(Get(choice0, "text"))
  ELSE Raise("AttributeError")

\* choice0.get("text", ""): AttributeError when choice0 is no dict.
LegacyText(choice0) ==
  IF IsDict(choice0) THEN Ok(GetOr(choice0, "text", EmptyStr))
  ELSE Raise("AttributeError")

\* The text of the first choice.
ChoiceText(choice0) ==
  IF InRaises(choice0) THEN Raise("TypeError")
  ELSE IF In("message", choice0)
       THEN IF ~IsDict(choice0) THEN Raise("TypeError")
            ELSE IF IsDict(Get(choice0, "message"))
                 THEN MessageText(Get(choice0, "message"))
                 ELSE LegacyText(choice0)
       ELSE LegacyText(choice0)

\* The body of the try block: text stays "" when there is no truthy choices.
ExtractText(raw) ==
  IF InRaises(raw) THEN Raise("TypeError")
  ELSE IF ~In("choices", raw) THEN Ok(EmptyStr)
  ELSE IF ~IsDict(raw) THEN Raise("TypeError")
  ELSE LET choices == Get(raw, "choices")
       IN IF ~Truthy(choices) THEN Ok(EmptyStr)
          ELSE IF Index0Exc(choices) # "" THEN Raise(Index0Exc(choices))
          ELSE ChoiceText(Index0(choices))

\* The handler of the try block: str(raw.get("choices", raw)).
FallbackText(raw) ==
  IF IsDict(raw) THEN Ok(PyStr(GetOr(raw, "choices", raw)))
  ELSE Raise("AttributeError")

\* try: ... except Exception: ...
NormalizeText(raw) ==
  IF ExtractText(raw).exc = "" THEN ExtractText(raw) ELSE FallbackText(raw)

\* raw.get("usage", {}) or raw.get("meta", {}).get("usage", {}) or {}
ExtractUsage(raw) ==
  IF ~IsDict(raw) THEN Raise("AttributeError")
  ELSE LET top == GetOr(raw, "usage", EmptyDict)
           meta == GetOr(raw, "meta", EmptyDict)
       IN IF Truthy(top) THEN Ok(top)
          ELSE IF ~IsDict(meta) THEN Raise("AttributeError")
          ELSE Ok(Or(GetOr(meta, "usage", EmptyDict), EmptyDict))

(***************************************************************************)
(* Embedding gateway: vector extraction                                    *)
(* (scripts/embedding_benchmark.py, lines 76-92).                          *)
(***************************************************************************)

\* `for item in x` raises TypeError when x is not iterable.
IterRaises(x) == x.t \in {"none", "num", "obj"}

\* The elements `for item in x` visits: the elements of a list, the keys of
\* a dict, the characters of a str.
Elements(x) ==
  CASE x.t = "list" -> x.items
    [] x.t = "dict" -> [i \in 1..Len(x.kv) |-> Str(KeyChars[x.kv[i].k])]
    [] x.t = "str"  -> [i \in 1..Len(x.s) |-> Str(<<x.s[i]>>)]
    [] OTHER        -> <<>>

\* Variant of ExtractVector: values is taken whenever the key exists.
ExtractVectorValuesFirst(item) ==
  LET vec == Or(Or(Or(Get(item, "embedding"), Get(item, "vector")),
                   Get(item, "embedding_vector")), EmptyList)
  IN IF Has(item, "values") THEN Get(item, "values") ELSE vec

\* The vector of one dict item: the first truthy of embedding, vector,
\* embedding_vector, else []; then values when that is falsy and the key exists.
ExtractVector(item) ==
  LET vec == Or(Or(Or(Get(item, "embedding"), Get(item, "vector")),
                   Get(item, "embedding_vector")), EmptyList)
  IN IF ~Truthy(vec) /\ Has(item, "values") THEN Get(item, "values") ELSE vec

\* Variant of ExtractVectors: an item that yields no vector is skipped too.
RECURSIVE ExtractVectorsSkipEmpty(_)
ExtractVectorsSkipEmpty(elems) ==
  IF elems = <<>> THEN <<>>
  ELSE IF ~IsDict(Head(elems)) \/ ~Truthy(ExtractVector(Head(elems)))
       THEN ExtractVectorsSkipEmpty(Tail(elems))
       ELSE <<ExtractVector(Head(elems))>> \o ExtractVectorsSkipEmpty(Tail(elems))

\* The loop over data: an item that is no dict is skipped (continue).
RECURSIVE ExtractVectors(_)
ExtractVectors(elems) ==
  IF elems = <<>> THEN <<>>
  ELSE IF ~IsDict(Head(elems)) THEN ExtractVectors(Tail(elems))
  ELSE <<ExtractVector(Head(elems))>> \o ExtractVectors(Tail(elems))

\* data = raw.get("data", []) if isinstance(raw, dict) else []
DataOf(raw) == IF IsDict(raw) THEN GetOr(raw, "data", EmptyList) ELSE EmptyList

\* Variant of ReconcileCount: the vectors are cut or padded with [] to the
\* number of input texts.
ReconcileCountPadded(vectors, texts) ==
  [i \in 1..Len(texts) |-> IF i <= Len(vectors) THEN vectors[i] ELSE EmptyList]

\* The count check only logs a warning: the vectors are returned as extracted.
ReconcileCount(vectors, texts) == vectors

(***************************************************************************)
(* Configuration, clients and failures.                                    *)
(***************************************************************************)

\* Bounds of the model.
MaxBlocks == 2

MaxItems == 2

MaxTexts == 3

MaxClock == 1

\* An environment variable that is not set reads as "" (os.getenv gives None,
\* which every use below treats like the empty string).
Unset == ""

OpenRouterKeys == {Unset, "sk-or-v1-k"}

GenericKeys == {Unset, "sk-or-misplaced", "sk-proj-k"}

\* key.startswith("sk-or-")
StartsWithSkOr(key) == key \in {"sk-or-v1-k", "sk-or-misplaced"}

OPENROUTER_BASE == "https://openrouter.ai/api/v1"

OPENAI_BASE_URL == "https://api.openai.com/v1"

DEFAULT_MODEL == "openai/chatgpt-4o-latest"

EMBED_MODEL == "text-embedding-3-small"

\* A model identifier as a value of a request body.
ModelValue(name) == Str(<<name>>)

Gateways == {"chat", "embed_app", "embed_script"}

NoClient == [base_url |-> "", api_key |-> ""]

Client(url, key) == [base_url |-> url, api_key |-> key]

\* The error type a gateway declares.
TypedError(gw) == IF gw = "chat" THEN "ProviderError" ELSE "EmbeddingError"

\* f"unexpected provider error: {e}" / f"unexpected embedding error: {e}"
UnexpectedPrefix(gw) ==
  IF gw = "chat" THEN "unexpected provider error: " ELSE "unexpected embedding error: "

\* The base classes of the exception classes a call can raise (all of them
\* derive from Exception).
Bases ==
  [APIError |-> {"APIError", "OpenAIError"},
   APIConnectionError |-> {"APIConnectionError", "APIError", "OpenAIError"},
   APITimeoutError |-> {"APITimeoutError", "APIConnectionError", "APIError", "OpenAIError"},
   RateLimitError |-> {"RateLimitError", "APIStatusError", "APIError", "OpenAIError"},
   InternalServerError |-> {"InternalServerError", "APIStatusError", "APIError", "OpenAIError"},
   AuthenticationError |-> {"AuthenticationError", "APIStatusError", "APIError", "OpenAIError"},
   OpenAIError |-> {"OpenAIError"},
   ValueError |-> {"ValueError"},
   NameError |-> {"NameError"}]

\* The failures of the outbound call: class and message.
Failures ==
  {[exc |-> "APIError", msg |-> "api error"],
   [exc |-> "APIConnectionError", msg |-> "Connection error."],
   [exc |-> "APITimeoutError", msg |-> "Request timed out."],
   [exc |-> "RateLimitError", msg |-> "rate limit exceeded"],
   [exc |-> "InternalServerError", msg |-> "internal server error"],
   [exc |-> "AuthenticationError", msg |-> "invalid api key"],
   [exc |-> "OpenAIError", msg |-> "sdk misuse"],
   [exc |-> "ValueError", msg |-> "bad value"]}

\* The classes of the first except clause of each gateway.
SdkErrors(gw) ==
  IF gw = "embed_script"
  THEN {"APIError", "AuthenticationError", "RateLimitError", "APITimeoutError",
        "InternalServerError"}
  ELSE {"APIError", "RateLimitError", "APITimeoutError", "InternalServerError"}

\* What a gateway can leave behind: nothing yet, a returned result, or a
\* raised exception (class and message parts).
NoOutcome ==
  [kind |-> "none", exc |-> "", msg |-> <<>>, text |-> None, usage |-> None,
   latency_ms |-> 0, raw |-> None, vectors |-> None, warned |-> FALSE]

Raised(cls, parts) == [NoOutcome EXCEPT !.kind = "raise", !.exc = cls, !.msg = parts]

\* Variant of CallFailure: without the second except clause, an exception
\* outside the first clause propagates as it is.
CallFailureNoCatchAll(gw, cls, msg) ==
  IF Bases[cls] \cap SdkErrors(gw) # {}
  THEN Raised(TypedError(gw), <<msg>>)
  ELSE Raised(cls, <<msg>>)

\* except (APIError, ...) as e: raise Typed(str(e))
\* except Exception as e:       raise Typed(f"unexpected ... error: {e}")
CallFailure(gw, cls, msg) ==
  IF Bases[cls] \cap SdkErrors(gw) # {}
  THEN Raised(TypedError(gw), <<msg>>)
  ELSE Raised(TypedError(gw), <<UnexpectedPrefix(gw), msg>>)

(***************************************************************************)
(* Provider responses: the shapes resp.to_dict() is drawn from.            *)
(***************************************************************************)

SeqsUpTo(S, n) == UNION {[1..k -> S] : k \in 0..n}

\* Values of a `text` field: a str, the empty str, null, a number.
TextValues == {Str(<<"l">>), EmptyStr, None, Num(<<"7">>)}

\* Content blocks: a str, a dict with text, a tagged dict with text, a dict
\* whose text is null, a dict without text, a number.
Blocks ==
  {Str(<<"a">>),
   Dict(<<KV("text", Str(<<"b">>))>>),
   Dict(<<KV("type", Str(<<"t">>)), KV("text", Str(<<"c">>))>>),
   Dict(<<KV("text", None)>>),
   Dict(<<KV("type", Str(<<"i">>))>>),
   Num(<<"7">>)}

Contents ==
  {List(bs) : bs \in SeqsUpTo(Blocks, MaxBlocks)}
    \cup {Str(<<"s">>), Str(<<" ", "s", " ">>), EmptyStr, None, Num(<<"7">>),
          Dict(<<KV("text", Str(<<"d">>))>>)}

Messages ==
  {Dict(<<KV("content", c)>>) : c \in Contents}
    \cup {EmptyDict, None, Str(<<"m">>), List(<<Str(KeyChars["content"])>>)}

\* A dict from optional entries: an entry whose flag is FALSE is left out.
OptDict(flags, entries) ==
  Dict(SelectSeq([i \in 1..Len(entries) |-> IF flags[i] THEN entries[i] ELSE KV("", None)],
                 LAMBDA e : e.k # ""))

FirstChoices ==
  {OptDict(<<hasMessage, hasText>>, <<KV("message", m), KV("text", tx)>>) :
     <<hasMessage, m, hasText, tx>> \in
       ({TRUE} \X Messages \X {FALSE} \X {None})
         \cup ({FALSE} \X {None} \X BOOLEAN \X TextValues)
         \cup ({TRUE} \X {None, EmptyDict, Str(<<"m">>),
                          Dict(<<KV("content", Str(<<"s">>))>>),
                          Dict(<<KV("content", EmptyStr)>>)}
                 \X {TRUE} \X TextValues)}
    \cup {None, Num(<<"7">>), Str(<<"x">>), EmptyList, List(<<Str(KeyChars["message"])>>)}

ChoicesValues ==
  {List(<<c>>) : c \in FirstChoices}
    \cup {List(<<Dict(<<KV("text", Str(<<"l">>))>>), None>>),
          EmptyList, None, Num(<<"7">>), Str(<<"x", "y">>),
          Dict(<<KV("index", Num(<<"0">>))>>)}

UsageValues ==
  {Dict(<<KV("prompt_tokens", Num(<<"3">>))>>), EmptyDict, None, Num(<<"5">>)}

MetaValues ==
  {Dict(<<KV("usage", Dict(<<KV("prompt_tokens", Num(<<"4">>))>>))>>),
   Dict(<<KV("usage", None)>>), EmptyDict, None, Str(<<"m">>)}

\* Choices shapes that are combined with every usage and meta shape.
PlainChoices ==
  {List(<<Dict(<<KV("message", Dict(<<KV("content", Str(<<"s">>))>>))>>)>>),
   List(<<Dict(<<KV("text", None)>>)>>),
   None}

RawOf(hasChoices, choices, hasUsage, usage, hasMeta, meta) ==
  OptDict(<<hasChoices, hasUsage, hasMeta>>,
          <<KV("choices", choices), KV("usage", usage), KV("meta", meta)>>)

ChatResponses ==
  {RawOf(TRUE, c, TRUE, Dict(<<KV("prompt_tokens", Num(<<"3">>))>>), FALSE, None) :
     c \in ChoicesValues}
    \cup {RawOf(hasC, c, hasU, u, hasM, m) :
            <<hasC, c, hasU, u, hasM, m>> \in
              ({TRUE} \X PlainChoices \X {TRUE} \X UsageValues \X {TRUE} \X MetaValues)
                \cup ({TRUE} \X PlainChoices \X {TRUE} \X UsageValues \X {FALSE} \X {None})
                \cup ({TRUE} \X PlainChoices \X {FALSE} \X {None} \X {TRUE} \X MetaValues)
                \cup (BOOLEAN \X {None} \X {FALSE} \X {None} \X {FALSE} \X {None})}

\* A conversation turn {"role": ..., "content": ...}.
Turn(role, content) == Dict(<<KV("role", Str(<<role>>)), KV("content", content)>>)

\* The conversation of a direct call: a system turn and a user turn with
\* block content.
Conversation ==
  List(<<Turn("system", Str(<<"y">>)),
         Turn("user", List(<<Str(<<"a">>),
                             Dict(<<KV("type", Str(<<"t">>)), KV("text", Str(<<"b">>))>>)>>))>>)

\* max_tokens: omitted, zero, positive.
MaxTokenValues == {None, Num(<<"0">>), Num(<<"5">>)}

\* extra_body: empty, fields that collide with a declared one, one that does
\* not, and both at once.
ExtraBodies ==
  {EmptyDict,
   Dict(<<KV("temperature", Num(<<"2">>))>>),
   Dict(<<KV("max_tokens", Num(<<"9">>))>>),
   Dict(<<KV("model", ModelValue("other-model"))>>),
   Dict(<<KV("messages", EmptyList)>>),
   Dict(<<KV("top_p", Num(<<"0", ".", "9">>))>>),
   Dict(<<KV("top_p", Num(<<"0", ".", "9">>)), KV("max_tokens", Num(<<"9">>))>>)}

\* The argument lists of the direct calls: every model and max_tokens with the
\* other arguments at their defaults; every max_tokens and extra_body with a
\* model and a temperature given; an int temperature with and without a
\* colliding extra.
ChatCalls ==
  {[model |-> m, texts |-> <<>>, messages |-> Conversation, max_tokens |-> mt,
    temperature |-> Num(<<"0", ".", "0">>), extra_body |-> None] :
     m \in {"", "custom-model"}, mt \in MaxTokenValues}
    \cup {[model |-> "custom-model", texts |-> <<>>, messages |-> Conversation,
            max_tokens |-> mt, temperature |-> Num(<<"0", ".", "7">>), extra_body |-> e] :
             mt \in MaxTokenValues, e \in ExtraBodies}
    \cup {[model |-> "custom-model", texts |-> <<>>, messages |-> Conversation,
            max_tokens |-> None, temperature |-> Num(<<"1">>), extra_body |-> e] :
             e \in {None, Dict(<<KV("temperature", Num(<<"2">>))>>)}}

Vec(d) == List(<<Num(<<d>>)>>)

\* Embedding response items: each field alone, empty and falsy leading fields,
\* several fields at once, no known field, and items that are no dict.
Items ==
  {Dict(<<KV("embedding", Vec("1"))>>),
   Dict(<<KV("vector", Vec("2"))>>),
   Dict(<<KV("embedding_vector", Vec("3"))>>),
   Dict(<<KV("values", Vec("4"))>>),
   Dict(<<KV("embedding", Vec("1")), KV("vector", Vec("2")), KV("values", Vec("4"))>>),
   Dict(<<KV("embedding", EmptyList), KV("vector", Vec("2")), KV("embedding_vector", Vec("3"))>>),
   Dict(<<KV("embedding", None), KV("embedding_vector", Vec("3")), KV("values", Vec("4"))>>),
   Dict(<<KV("embedding", EmptyList), KV("values", Vec("4"))>>),
   Dict(<<KV("vector", EmptyList), KV("values", None)>>),
   Dict(<<KV("index", Num(<<"0">>))>>),
   EmptyDict,
   None,
   Vec("5"),
   Str(<<"e">>)}

EmbedResponses ==
  {Dict(<<KV("data", List(items))>>) : items \in SeqsUpTo(Items, MaxItems)}
    \cup {EmptyDict,
          Dict(<<KV("data", None)>>),
          Dict(<<KV("data", Dict(<<KV("embedding", Vec("1"))>>))>>)}

(***************************************************************************)
(* The gateways as a state machine.                                        *)
(***************************************************************************)
VARIABLES
  OPENROUTER_API_KEY,  \* environment: the OpenRouter key, Unset when absent
  OPENAI_API_KEY,      \* environment: the generic key, Unset when absent
  gateway,             \* the gateway module under execution
  pc,                  \* "unloaded", "crashed", "ready", "awaiting", "replied", "done"
  client,              \* the module's _client; NoClient when there is none
  args,                \* the arguments of the invocation
  request,             \* the outbound request, once issued
  net,                 \* the number of network requests issued
  reply,               \* the provider's reply to the request
  start,               \* the reading of _now_ms() taken before the call
  finish,              \* the reading of _now_ms() taken after the call returned
  out,                 \* what the invocation (or the import) left behind
  db,                  \* the rows of the relational store
  http                 \* the HTTP request being served and its response

vars ==
  <<OPENROUTER_API_KEY, OPENAI_API_KEY, gateway, pc, client, args, request, net,
    reply, start, finish, out, db, http>>

NoArgs ==
  [model |-> "", texts |-> <<>>, messages |-> None, max_tokens |-> None,
   temperature |-> None, extra_body |-> None]

NoRequest ==
  [model |-> "", input |-> <<>>, messages |-> None, max_tokens |-> None,
   temperature |-> None, extra_body |-> None, body |-> None]

\* The rows the store holds when the process starts: project 1 and its
\* session 1 exist; no message and no usage event has been written.
StoredRecords ==
  [projects |-> {[id |-> 1]},
   sessions |-> {[id |-> 1, project_id |-> 1, title |-> "t"]},
   messages |-> <<>>,
   usage_events |-> <<>>]

\* An id no row has.
Missing == 404

\* A response body: the id as the string the JSON carries ("" when none).
NoBody == [id |-> "", content |-> None, usage |-> None]

\* The HTTP request being served: the endpoint, its payload (parent is the
\* project_id or session_id, 0 when absent; model "" when absent; messages and
\* content None when absent), and the response (status 0 while pending).
NoHttp ==
  [endpoint |-> "", parent |-> 0, model |-> "", role |-> "", messages |-> None,
   content |-> None, status |-> 0, detail |-> <<>>, exc |-> "", body |-> NoBody]

NoReply == [kind |-> "none", raw |-> None, exc |-> "", msg |-> ""]

\* model arguments: omitted (None) or given
Models == {"", "custom-model"}

\* input batches: n distinct texts, written 1..n
Texts == {[i \in 1..n |-> i] : n \in 0..MaxTexts}

Init ==
  /\ OPENROUTER_API_KEY \in OpenRouterKeys
  /\ OPENAI_API_KEY \in GenericKeys
  /\ gateway \in Gateways
  /\ pc = "unloaded"
  /\ client = NoClient
  /\ args = NoArgs
  /\ request = NoRequest
  /\ net = 0
  /\ reply = NoReply
  /\ start = 0
  /\ finish = 0
  /\ out = NoOutcome
  /\ db = StoredRecords
  /\ http = NoHttp

\* api_key=OPENROUTER_API_KEY or os.getenv("OPENAI_API_KEY")
ChatApiKey(orKey, genKey) == IF orKey # Unset THEN orKey ELSE genKey

\* Import of app/providers/openrouter_openai.py: the client always points at
\* OPENROUTER_BASE.  Given no key at all, the SDK constructor either rejects
\* the missing key (the import fails with OpenAIError) or builds a client
\* without credentials, depending on the SDK.
LoadChat ==
  /\ pc = "unloaded"
  /\ gateway = "chat"
  /\ \E sdkRejects \in BOOLEAN :
       LET key == ChatApiKey(OPENROUTER_API_KEY, OPENAI_API_KEY)
       IN IF key = Unset /\ sdkRejects
          THEN /\ pc' = "crashed"
               /\ out' = Raised("OpenAIError", <<"api_key must be set">>)
               /\ UNCHANGED client
          ELSE /\ pc' = "ready"
               /\ client' = Client(OPENROUTER_BASE, key)
               /\ UNCHANGED out
  /\ UNCHANGED <<OPENROUTER_API_KEY, OPENAI_API_KEY, gateway, args, request, net,
                 reply, start, finish, db, http>>

\* Import of app/embeddings/providers.py: BASE_URL and API_KEY are assigned
\* only under `if OPENROUTER_API_KEY:`, so without that key the construction
\* of the client reads an unassigned name and the import fails with NameError.
LoadEmbedApp ==
  /\ pc = "unloaded"
  /\ gateway = "embed_app"
  /\ IF OPENROUTER_API_KEY # Unset
     THEN /\ pc' = "ready"
          /\ client' = Client(OPENROUTER_BASE, OPENROUTER_API_KEY)
          /\ UNCHANGED out
     ELSE /\ pc' = "crashed"
          /\ out' = Raised("NameError", <<"name 'BASE_URL' is not defined">>)
          /\ UNCHANGED client
  /\ UNCHANGED <<OPENROUTER_API_KEY, OPENAI_API_KEY, gateway, args, request, net,
                 reply, start, finish, db, http>>

\* The key and endpoint scripts/embedding_benchmark.py resolves.
ScriptClient(orKey, genKey) ==
  IF orKey # Unset THEN Client(OPENROUTER_BASE, orKey)
  ELSE IF genKey # Unset /\ StartsWithSkOr(genKey) THEN Client(OPENROUTER_BASE, genKey)
  ELSE IF genKey # Unset THEN Client(OPENAI_BASE_URL, genKey)
  ELSE NoClient

\* Import of scripts/embedding_benchmark.py: never fails; _client is None
\* when no key is found.
LoadEmbedScript ==
  /\ pc = "unloaded"
  /\ gateway = "embed_script"
  /\ pc' = "ready"
  /\ client' = ScriptClient(OPENROUTER_API_KEY, OPENAI_API_KEY)
  /\ UNCHANGED <<OPENROUTER_API_KEY, OPENAI_API_KEY, gateway, args, request, net,
                 reply, start, finish, out, db, http>>

\* model = model or DEFAULT_MODEL
ModelOrDefault(model) == IF model # "" THEN model ELSE DEFAULT_MODEL

\* The local `body`: the declared fields, max_tokens only when it is given,
\* then body.update(extra_body) when extra_body is truthy.  (int(max_tokens)
\* is the identity on the integers passed here.)
ChatBody(a) ==
  LET declared == Dict(<<KV("model", ModelValue(ModelOrDefault(a.model))),
                         KV("messages", a.messages),
                         KV("temperature", PyFloat(a.temperature))>>)
      limited == IF a.max_tokens # None THEN DictSet(declared, "max_tokens", a.max_tokens)
                 ELSE declared
  IN IF Truthy(a.extra_body) THEN DictUpdate(limited, a.extra_body) ELSE limited

\* The JSON body _client.chat.completions.create sends: every parameter it
\* was passed (None is sent as null), with the extra_body entries merged over
\* them.
SdkBody(model, messages, max_tokens, temperature, extra_body) ==
  DictUpdate(Dict(<<KV("messages", messages), KV("model", ModelValue(model)),
                    KV("max_tokens", max_tokens), KV("temperature", temperature)>>),
             extra_body)

\* The request of _client.chat.completions.create(...): the keyword arguments
\* of lines 62-70 and the body sent for them.
ChatRequest(a) ==
  LET body == ChatBody(a)
      max_tokens == Get(body, "max_tokens")
      temperature == Get(body, "temperature")
      extra_body == Or(a.extra_body, EmptyDict)
  IN [model |-> ModelOrDefault(a.model), input |-> <<>>, messages |-> a.messages,
      max_tokens |-> max_tokens, temperature |-> temperature,
      extra_body |-> extra_body,
      body |-> SdkBody(ModelOrDefault(a.model), a.messages, max_tokens, temperature,
                       extra_body)]

\* call_chat_completions(a) up to the network call: the body is built,
\* _now_ms() is read (the wall clock, int(time.time() * 1000)) and the request
\* is issued.
ChatCall(a) ==
  /\ args' = a
  /\ request' = ChatRequest(a)
  /\ start' \in 0..MaxClock
  /\ net' = net + 1
  /\ pc' = "awaiting"

\* A direct call of call_chat_completions.
ChatInvoke ==
  /\ pc = "ready"
  /\ gateway = "chat"
  /\ http = NoHttp
  /\ \E a \in ChatCalls : ChatCall(a)
  /\ UNCHANGED <<OPENROUTER_API_KEY, OPENAI_API_KEY, gateway, client, reply, finish,
                 out, db, http>>

\* Variant of EmbedEntry: without the early return for an empty input.
EmbedEntryNoShortCircuit(credentialed, texts) ==
  IF ~credentialed THEN "raise" ELSE "call"

\* The checks of embed_texts before the try block, the same in both modules:
\* the credential check comes first, then the empty input.
EmbedEntry(credentialed, texts) ==
  IF ~credentialed THEN "raise"
  ELSE IF texts = <<>> THEN "return"
  ELSE "call"

\* embed_texts of app/embeddings/providers.py.  The credential check reads
\* OPENROUTER_API_KEY.  The call expression names DEFAULT_TIMEOUT, which this
\* module never defines: evaluating the arguments raises NameError inside the
\* try block, before any request is issued, and the second except clause wraps
\* it.  The code after the try block is never reached.
EmbedAppInvoke ==
  /\ pc = "ready"
  /\ gateway = "embed_app"
  /\ \E model \in Models, texts \in Texts :
       LET entry == EmbedEntry(OPENROUTER_API_KEY # Unset, texts)
       IN /\ args' = [NoArgs EXCEPT !.model = model, !.texts = texts]
          /\ out' = IF entry = "raise"
                    THEN Raised("EmbeddingError", <<"OPENROUTER_API_KEY not set in env">>)
                    ELSE IF entry = "return"
                    THEN [NoOutcome EXCEPT !.kind = "result", !.vectors = EmptyList]
                    ELSE CallFailure(gateway, "NameError",
                                     "name 'DEFAULT_TIMEOUT' is not defined")
  /\ pc' = "done"
  /\ UNCHANGED <<OPENROUTER_API_KEY, OPENAI_API_KEY, gateway, client, request, net,
                 reply, start, finish, db, http>>

\* embed_texts of scripts/embedding_benchmark.py up to the network call.  The
\* credential check reads _client.
EmbedScriptInvoke ==
  /\ pc = "ready"
  /\ gateway = "embed_script"
  /\ \E model \in Models, texts \in Texts :
       LET entry == EmbedEntry(client # NoClient, texts)
       IN /\ args' = [NoArgs EXCEPT !.model = model, !.texts = texts]
          /\ IF entry = "raise"
             THEN /\ out' = Raised("EmbeddingError", <<"No API key configured.">>)
                  /\ pc' = "done"
                  /\ UNCHANGED <<request, net>>
             ELSE IF entry = "return"
             THEN /\ out' = [NoOutcome EXCEPT !.kind = "result", !.vectors = EmptyList]
                  /\ pc' = "done"
                  /\ UNCHANGED <<request, net>>
             ELSE /\ request' = [NoRequest EXCEPT
                                   !.model = IF model # "" THEN model ELSE EMBED_MODEL,
                                   !.input = texts]
                  /\ net' = net + 1
                  /\ pc' = "awaiting"
                  /\ UNCHANGED out
  /\ UNCHANGED <<OPENROUTER_API_KEY, OPENAI_API_KEY, gateway, client, reply, start,
                 finish, db, http>>

\* The replies the provider can give: a failure of the call, or a response.  A
\* request without credentials is only ever rejected.
Replies ==
  IF client.api_key = Unset
  THEN {[kind |-> "error", raw |-> None, exc |-> "AuthenticationError",
         msg |-> "invalid api key"]}
  ELSE {[kind |-> "error", raw |-> None, exc |-> f.exc, msg |-> f.msg] : f \in Failures}
         \cup {[kind |-> "response", raw |-> r, exc |-> "", msg |-> ""] :
                 r \in IF gateway = "chat" THEN ChatResponses ELSE EmbedResponses}

\* The blocking call ends: the provider has replied or the call has failed.
ProviderReplies ==
  /\ pc = "awaiting"
  /\ reply' \in Replies
  /\ pc' = "replied"
  /\ UNCHANGED <<OPENROUTER_API_KEY, OPENAI_API_KEY, gateway, client, args, request,
                 net, start, finish, out, db, http>>

\* Normalization of a chat response into the result record.
ChatResult(raw, latency) ==
  LET t == NormalizeText(raw)
      u == ExtractUsage(raw)
  IN IF t.exc # "" THEN Raised(t.exc, <<>>)
     ELSE IF u.exc # "" THEN Raised(u.exc, <<>>)
     ELSE [NoOutcome EXCEPT !.kind = "result", !.text = t.val, !.usage = u.val,
                            !.latency_ms = latency, !.raw = raw]

\* call_chat_completions from the return of the network call on.  A failed
\* call raises before the clock is read again; otherwise _now_ms() is read a
\* second time, and the wall clock can give any reading.
ChatReturn ==
  /\ pc = "replied"
  /\ gateway = "chat"
  /\ IF reply.kind = "error"
     THEN /\ out' = CallFailure(gateway, reply.exc, reply.msg)
          /\ UNCHANGED finish
     ELSE /\ finish' \in 0..MaxClock
          /\ out' = ChatResult(reply.raw, finish' - start)
  /\ pc' = "done"
  /\ UNCHANGED <<OPENROUTER_API_KEY, OPENAI_API_KEY, gateway, client, args, request,
                 net, reply, start, db, http>>

\* Extraction of the vectors of an embedding response.
EmbedResult(raw, texts) ==
  IF IterRaises(DataOf(raw)) THEN Raised("TypeError", <<>>)
  ELSE LET vectors == ExtractVectors(Elements(DataOf(raw)))
       IN [NoOutcome EXCEPT !.kind = "result",
                            !.vectors = List(ReconcileCount(vectors, texts)),
                            !.warned = (Len(vectors) # Len(texts)),
                            !.raw = raw]

\* embed_texts (script) from the return of the network call on.
EmbedReturn ==
  /\ pc = "replied"
  /\ gateway = "embed_script"
  /\ out' = IF reply.kind = "error"
            THEN CallFailure(gateway, reply.exc, reply.msg)
            ELSE EmbedResult(reply.raw, args.texts)
  /\ pc' = "done"
  /\ UNCHANGED <<OPENROUTER_API_KEY, OPENAI_API_KEY, gateway, client, args, request,
                 net, reply, start, finish, db, http>>

(***************************************************************************)
(* The endpoints of app/main.py and the store behind app/crud.py.          *)
(***************************************************************************)

\* Variant of NotFound: the lookup result is not tested.
NotFoundIgnored(rows, id) == FALSE

\* crud.get_project / crud.get_session: .first() of the rows with that id;
\* `if not project` / `if not session` is true when there is none.
NotFound(rows, id) == ~\E r \in rows : r.id = id

\* An HTTPException, or an exception no handler catches (status 500).
Respond(rq, status, detail) == [rq EXCEPT !.status = status, !.detail = detail]

Unhandled(rq, cls) == [rq EXCEPT !.status = 500, !.exc = cls]

\* crud.create_session_message: the row is added and committed.  session_id
\* and content are NOT NULL columns (models.py): the commit raises
\* IntegrityError when one of them is None.
CreateMessageRaises(session_id, content) == session_id = 0 \/ content = None

MessageRow(rows, session_id, role, content, model) ==
  [id |-> Len(rows) + 1, session_id |-> session_id, role |-> role,
   content |-> content, model |-> model]

\* The text pieces of a content list: block["text"] of every mapping block
\* that has the key, every str block itself.
RECURSIVE TextParts(_)
TextParts(blocks) ==
  IF blocks = <<>> THEN <<>>
  ELSE LET block == Head(blocks)
           rest == TextParts(Tail(blocks))
       IN IF IsDict(block) /\ Has(block, "text") THEN <<Get(block, "text")>> \o rest
          ELSE IF IsStr(block) THEN <<block>> \o rest
          ELSE rest

\* " ".join(text_parts): TypeError unless every part is a str.
SpaceJoin(text_parts) ==
  IF \A i \in 1..Len(text_parts) : IsStr(text_parts[i])
  THEN Ok(Str(JoinChars([i \in 1..Len(text_parts) |-> text_parts[i].s], <<" ">>)))
  ELSE Raise("TypeError")

\* content_str of a turn's content: a list is flattened, a str is itself,
\* anything else is str(c).
ContentStr(c) ==
  IF IsList(c) THEN SpaceJoin(TextParts(c.items))
  ELSE IF IsStr(c) THEN Ok(c)
  ELSE Ok(PyStr(c))

\* One pass of the loop body over m, inside try/except Exception: pass.  The
\* row of a user-role turn is added unless something raised on the way
\* (m.get on a non-mapping, the join, the insert).
PersistTurn(rows, session_id, m) ==
  IF ~IsDict(m) THEN rows
  ELSE IF Get(m, "role") # Str(<<"user">>) THEN rows
  ELSE IF ContentStr(Get(m, "content")).exc # "" THEN rows
  ELSE IF CreateMessageRaises(session_id, ContentStr(Get(m, "content")).val) THEN rows
  ELSE Append(rows, MessageRow(rows, session_id, "user",
                               ContentStr(Get(m, "content")).val, ""))

\* for m in messages: ...
RECURSIVE PersistUserTurns(_, _, _)
PersistUserTurns(rows, session_id, turns) ==
  IF turns = <<>> THEN rows
  ELSE PersistUserTurns(PersistTurn(rows, session_id, Head(turns)), session_id, Tail(turns))

\* messages = payload.get("messages"), or the single user turn built from
\* payload.get("content", "").
RunMessages(messages, content) ==
  IF messages # None THEN messages
  ELSE List(<<Turn("user", content)>>)

\* The payloads of POST /api/v1/llm/run.
RunSessions == {0, 1, Missing}

RunMessageLists ==
  {List(<<Turn("user", Str(<<"h", "i">>))>>),
   Conversation,
   List(<<Turn("user", List(<<Str(<<"a">>), Dict(<<KV("type", Str(<<"t">>)),
                                                     KV("text", Str(<<"b">>))>>)>>)),
          Turn("assistant", Str(<<"x">>)),
          Turn("user", Str(<<"u">>))>>),
   List(<<Turn("user", List(<<Dict(<<KV("text", None)>>)>>))>>),
   List(<<Str(<<"x">>), Turn("user", None)>>),
   EmptyList,
   Num(<<"7">>)}

RunPayloads ==
  {[NoHttp EXCEPT !.endpoint = "llm_run", !.parent = s, !.model = m, !.messages = ms] :
     s \in RunSessions, m \in Models, ms \in RunMessageLists}
    \cup {[NoHttp EXCEPT !.endpoint = "llm_run", !.parent = s, !.model = m, !.content = c] :
             s \in RunSessions, m \in Models, c \in {EmptyStr, Str(<<"s", "t", "u", "b">>)}}

\* llm_run up to the provider call: the session is validated when a
\* session_id is given, the user-role turns are persisted, and
\* call_chat_completions(messages=messages, model=model) is entered.
LlmRunBegin ==
  /\ pc = "ready"
  /\ gateway = "chat"
  /\ http = NoHttp
  /\ \E rq \in RunPayloads :
       LET model == ModelOrDefault(rq.model)
           messages == RunMessages(rq.messages, rq.content)
       IN IF rq.parent # 0 /\ NotFound(db.sessions, rq.parent)
          THEN /\ http' = Respond(rq, 404, <<"session not found">>)
               /\ UNCHANGED <<db, args, request, start, net, pc>>
          ELSE IF IterRaises(messages)
          THEN /\ http' = Unhandled(rq, "TypeError")
               /\ UNCHANGED <<db, args, request, start, net, pc>>
          ELSE /\ http' = rq
               /\ db' = [db EXCEPT !.messages =
                           PersistUserTurns(db.messages, rq.parent, Elements(messages))]
               /\ ChatCall([NoArgs EXCEPT !.model = model, !.messages = messages,
                                          !.temperature = Num(<<"0", ".", "0">>)])
  /\ UNCHANGED <<OPENROUTER_API_KEY, OPENAI_API_KEY, gateway, client, reply, finish, out>>

\* int(usage.get(k1, 0) or usage.get(k2, 0) or 0)
TokenCount(usage, k1, k2) ==
  Or(Or(GetOr(usage, k1, Num(<<"0">>)), GetOr(usage, k2, Num(<<"0">>))), Num(<<"0">>))

UsageRow(rows, message_id, model, usage, latency_ms) ==
  [id |-> Len(rows) + 1, session_message_id |-> message_id, model |-> model,
   tokens_prompt |-> TokenCount(usage, "prompt_tokens", "input_tokens"),
   tokens_response |-> TokenCount(usage, "completion_tokens", "output_tokens"),
   latency_ms |-> latency_ms]

\* Variant of RunFailure: the ProviderError is answered like any other
\* exception, without its message.
RunFailureUnhandled(rq, o) == Unhandled(rq, o.exc)

\* except ProviderError as e: raise HTTPException(status_code=502,
\* detail=str(e)); any other exception of the gateway is not handled.
RunFailure(rq, o) ==
  IF o.exc = "ProviderError" THEN Respond(rq, 502, o.msg) ELSE Unhandled(rq, o.exc)

\* llm_run from the return of call_chat_completions on: ProviderError becomes
\* a 502, any other exception is not handled; otherwise the assistant message
\* is persisted, the usage event logged, and id, content and usage returned.
LlmRunEnd ==
  /\ pc = "done"
  /\ gateway = "chat"
  /\ http.endpoint = "llm_run"
  /\ http.status = 0
  /\ LET model == ModelOrDefault(http.model)
         usage == Or(out.usage, EmptyDict)
         row == MessageRow(db.messages, http.parent, "assistant", out.text, model)
     IN IF out.kind = "raise"
        THEN /\ http' = RunFailure(http, out)
             /\ UNCHANGED db
        ELSE IF CreateMessageRaises(http.parent, out.text)
        THEN /\ http' = Unhandled(http, "IntegrityError")
             /\ UNCHANGED db
        ELSE IF ~IsDict(usage)
        THEN /\ http' = Unhandled(http, "AttributeError")
             /\ db' = [db EXCEPT !.messages = Append(db.messages, row)]
        ELSE /\ http' = [http EXCEPT !.status = 200,
                                     !.body = [id |-> ToString(row.id), content |-> out.text,
                                               usage |-> usage]]
             /\ db' = [db EXCEPT !.messages = Append(db.messages, row),
                                 !.usage_events =
                                   Append(db.usage_events,
                                          UsageRow(db.usage_events, row.id, model, usage,
                                                   out.latency_ms))]
  /\ UNCHANGED <<OPENROUTER_API_KEY, OPENAI_API_KEY, gateway, pc, client, args, request,
                 net, reply, start, finish, out>>

\* POST /api/v1/sessions: the project is validated, then the session created
\* with title or "".
CreateSession ==
  /\ pc = "ready"
  /\ gateway = "chat"
  /\ http = NoHttp
  /\ \E project_id \in {1, Missing}, title \in {"", "session1"} :
       LET rq == [NoHttp EXCEPT !.endpoint = "create_session", !.parent = project_id,
                                !.content = Str(<<title>>)]
           id == Cardinality(db.sessions) + 1
       IN IF NotFound(db.projects, project_id)
          THEN /\ http' = Respond(rq, 404, <<"project not found">>)
               /\ UNCHANGED db
          ELSE /\ db' = [db EXCEPT !.sessions =
                           @ \cup {[id |-> id, project_id |-> project_id, title |-> title]}]
               /\ http' = [rq EXCEPT !.status = 200, !.body = [NoBody EXCEPT !.id = ToString(id)]]
  /\ UNCHANGED <<OPENROUTER_API_KEY, OPENAI_API_KEY, gateway, pc, client, args, request,
                 net, reply, start, finish, out>>

\* POST /api/v1/sessions/{session_id}/messages: the session is validated,
\* then the message created.
AppendMessage ==
  /\ pc = "ready"
  /\ gateway = "chat"
  /\ http = NoHttp
  /\ \E session_id \in {1, Missing}, role \in {"user", "assistant"}, model \in Models :
       LET content == Str(<<"H", "i">>)
           rq == [NoHttp EXCEPT !.endpoint = "append_message", !.parent = session_id,
                                !.role = role, !.model = model, !.content = content]
           row == MessageRow(db.messages, session_id, role, content, model)
       IN IF NotFound(db.sessions, session_id)
          THEN /\ http' = Respond(rq, 404, <<"session not found">>)
               /\ UNCHANGED db
          ELSE /\ db' = [db EXCEPT !.messages = Append(db.messages, row)]
               /\ http' = [rq EXCEPT !.status = 200,
                                     !.body = [NoBody EXCEPT !.id = ToString(row.id),
                                                             !.content = content]]
  /\ UNCHANGED <<OPENROUTER_API_KEY, OPENAI_API_KEY, gateway, pc, client, args, request,
                 net, reply, start, finish, out>>

Next ==
  \/ LoadChat
  \/ LoadEmbedApp
  \/ LoadEmbedScript
  \/ ChatInvoke
  \/ EmbedAppInvoke
  \/ EmbedScriptInvoke
  \/ ProviderReplies
  \/ ChatReturn
  \/ EmbedReturn

Spec == Init /\ [][Next]_vars

\* The two embedding modules alone.
InitEmbed == Init /\ gateway \in {"embed_app", "embed_script"}

NextEmbed ==
  \/ LoadEmbedApp
  \/ LoadEmbedScript
  \/ EmbedAppInvoke
  \/ EmbedScriptInvoke
  \/ ProviderReplies
  \/ EmbedReturn

SpecEmbed == InitEmbed /\ [][NextEmbed]_vars

\* The application: app/main.py imports the chat gateway and serves a request.
InitApi == Init /\ gateway = "chat" /\ OPENAI_API_KEY = Unset

NextApi ==
  \/ LoadChat
  \/ CreateSession
  \/ AppendMessage
  \/ LlmRunBegin
  \/ ProviderReplies
  \/ ChatReturn
  \/ LlmRunEnd

SpecApi == InitApi /\ [][NextApi]_vars

(***************************************************************************)
(* Properties.                                                             *)
(***************************************************************************)

\* The chat gateway has finished an invocation to which the provider responded.
ChatResponded == gateway = "chat" /\ pc = "done" /\ reply.kind = "response"

\* The chat gateway has returned a result record.
ChatReturned == ChatResponded /\ out.kind = "result"

\* C1: every result call_chat_completions returns has a str as its text,
\* whatever the shape of the response (choices, message, content, legacy text).
C1_TextIsAlwaysString == ChatReturned => IsStr(out.text)

\* C2: once the network call has returned a response, normalization never
\* raises: a result record is returned, and when the extraction from the first
\* choice failed its text is the stringified choices (or the stringified raw
\* response when choices is absent).
C2_NormalizationNeverRaises ==
  ChatResponded =>
    /\ out.kind = "result"
    /\ ExtractText(reply.raw).exc # "" =>
         out.text = PyStr(GetOr(reply.raw, "choices", reply.raw))

\* The message parts of the raised error include the message of the failure.
CarriesMessage(parts, msg) == \E i \in 1..Len(parts) : parts[i] = msg

\* C3: every failure of the outbound call (an SDK error of any class, or any
\* other exception raised by the call) reaches the caller as the gateway's own
\* typed error, ProviderError for chat and EmbeddingError for embeddings, whose
\* message contains the message of the original failure.
C3_CallFailuresAreTyped ==
  /\ (pc = "done" /\ reply.kind = "error") =>
       /\ out.kind = "raise"
       /\ out.exc = TypedError(gateway)
       /\ CarriesMessage(out.msg, reply.msg)
  /\ (pc = "done" /\ gateway = "embed_app" /\ args.texts # <<>>) =>
       /\ out.kind = "raise"
       /\ out.exc = TypedError(gateway)
       /\ CarriesMessage(out.msg, "name 'DEFAULT_TIMEOUT' is not defined")

\* C3 witness: a failure outside the SDK's classes has been wrapped by the
\* embedding gateway.
C3_Witness ==
  /\ pc = "done"
  /\ gateway = "embed_script"
  /\ reply.kind = "error"
  /\ reply.exc = "ValueError"
  /\ out.exc = "EmbeddingError"

\* embed_texts has finished an invocation (either module).
EmbedDone == gateway \in {"embed_app", "embed_script"} /\ pc = "done"

\* C4, as stated: for every configuration, credential set or not, and every
\* model argument, embed_texts([]) returns [] and issues no network call.
C4_EmptyInputAlwaysReturnsEmpty ==
  (EmbedDone /\ args.texts = <<>>) =>
    /\ out.kind = "result"
    /\ out.vectors = EmptyList
    /\ net = 0

\* C4, amended: for every model argument, embed_texts([]) issues no network
\* call; it returns [] when the gateway holds a credential, and raises
\* EmbeddingError when it holds none (the credential check comes first).
C4_EmptyInputShortCircuits ==
  (EmbedDone /\ args.texts = <<>>) =>
    /\ net = 0
    /\ request = NoRequest
    /\ reply = NoReply
    /\ IF client # NoClient
       THEN out.kind = "result" /\ out.vectors = EmptyList
       ELSE out.kind = "raise" /\ out.exc = "EmbeddingError"

\* C4 witness: an empty input with a model argument given, on a gateway that
\* holds a credential, has returned [].
C4_Witness ==
  /\ EmbedDone
  /\ client # NoClient
  /\ args = [NoArgs EXCEPT !.model = "custom-model"]
  /\ out.kind = "result"

\* Neither an OpenRouter key nor a generic key is configured.
NoCredential == OPENROUTER_API_KEY = Unset /\ OPENAI_API_KEY = Unset

\* C5: with no credential at all, the import of a gateway module does not
\* fail, no network request is ever issued, and an invocation ends in the
\* gateway's own typed error.
C5_NoCredentialGivesTypedError ==
  NoCredential =>
    /\ pc # "crashed"
    /\ net = 0
    /\ pc = "done" => (out.kind = "raise" /\ out.exc = TypedError(gateway))

\* The items of a data list that are key/value records, in order.
RecordItems(data) == SelectSeq(data.items, IsDict)

\* The vector the field priority names for a record item: the first of
\* embedding, vector, embedding_vector that holds a non-empty value; values
\* when none of the three does and the item has the field; else [].
PriorityVector(item) ==
  IF Truthy(Get(item, "embedding")) THEN Get(item, "embedding")
  ELSE IF Truthy(Get(item, "vector")) THEN Get(item, "vector")
  ELSE IF Truthy(Get(item, "embedding_vector")) THEN Get(item, "embedding_vector")
  ELSE IF Has(item, "values") THEN Get(item, "values")
  ELSE EmptyList

\* embed_texts has finished an invocation in which the provider sent a
\* response whose data is a list.
EmbedResponded ==
  /\ EmbedDone
  /\ reply.kind = "response"
  /\ IsList(DataOf(reply.raw))

\* C6: when the provider returns a number of data items different from the
\* number of input texts, embed_texts does not raise and returns exactly the
\* vectors of the response, in response order, neither cut nor padded to the
\* number of inputs.
C6_CountMismatchReturnsExtracted ==
  (EmbedResponded /\ Len(DataOf(reply.raw).items) # Len(args.texts)) =>
    /\ out.kind = "result"
    /\ IsList(out.vectors)
    /\ Len(out.vectors.items) = Len(RecordItems(DataOf(reply.raw)))
    /\ \A k \in 1..Len(out.vectors.items) :
         out.vectors.items[k] = PriorityVector(RecordItems(DataOf(reply.raw))[k])

\* C6 witness: three inputs, two data items, two vectors returned.
C6_Witness ==
  /\ EmbedResponded
  /\ Len(args.texts) = 3
  /\ Len(DataOf(reply.raw).items) = 2
  /\ out.kind = "result"
  /\ Len(out.vectors.items) = 2

\* The vector fields the extraction knows.
VectorFields == {"embedding", "vector", "embedding_vector", "values"}

\* C7, as stated: for every embedding response the returned list has exactly
\* one entry per item of the data list, and the entry of an item that has none
\* of the vector fields is [].
C7_OneEntryPerItem ==
  EmbedResponded =>
    /\ out.kind = "result"
    /\ Len(out.vectors.items) = Len(DataOf(reply.raw).items)
    /\ \A i \in 1..Len(DataOf(reply.raw).items) :
         LET item == DataOf(reply.raw).items[i]
         IN (IsDict(item) /\ \A f \in VectorFields : ~Has(item, f)) =>
              out.vectors.items[i] = EmptyList

\* C7, amended: the returned list has exactly one entry per key/value item of
\* the data list, in the same order (only the items that are not key/value
\* records are left out): each entry is [] or a field value of its own item,
\* and the entry of an item that has none of the vector fields is [].
C7_OneEntryPerRecordItem ==
  EmbedResponded =>
    /\ out.kind = "result"
    /\ Len(out.vectors.items) = Len(RecordItems(DataOf(reply.raw)))
    /\ \A k \in 1..Len(RecordItems(DataOf(reply.raw))) :
         LET item == RecordItems(DataOf(reply.raw))[k]
         IN /\ \/ out.vectors.items[k] = EmptyList
               \/ \E f \in VectorFields :
                    Has(item, f) /\ out.vectors.items[k] = Get(item, f)
            /\ (\A f \in VectorFields : ~Has(item, f)) =>
                 out.vectors.items[k] = EmptyList

\* C7 witness: an item without any vector field, after an item with one, has
\* its own entry [] in second place.
C7_Witness ==
  /\ EmbedResponded
  /\ Len(DataOf(reply.raw).items) = 2
  /\ IsDict(DataOf(reply.raw).items[1])
  /\ Has(DataOf(reply.raw).items[1], "embedding")
  /\ DataOf(reply.raw).items[2] = Dict(<<KV("index", Num(<<"0">>))>>)
  /\ out.kind = "result"
  /\ Len(out.vectors.items) = 2
  /\ out.vectors.items[2] = EmptyList

\* C8: for each key/value item the extracted vector is the value of the first
\* of embedding, vector, embedding_vector that holds a non-empty value; values
\* is used only when none of the three does; items that are not key/value
\* records are skipped without raising.
C8_FieldPriority ==
  EmbedResponded =>
    /\ out.kind = "result"
    /\ Len(out.vectors.items) = Len(RecordItems(DataOf(reply.raw)))
    /\ \A k \in 1..Len(RecordItems(DataOf(reply.raw))) :
         LET item == RecordItems(DataOf(reply.raw))[k]
             vec == out.vectors.items[k]
             three == <<Get(item, "embedding"), Get(item, "vector"),
                        Get(item, "embedding_vector")>>
         IN /\ \A i \in 1..3 :
                 (Truthy(three[i]) /\ \A j \in 1..(i - 1) : ~Truthy(three[j])) =>
                   vec = three[i]
            /\ (Has(item, "values") /\ \E i \in 1..3 : Truthy(three[i])) =>
                 vec # Get(item, "values")
            /\ (Has(item, "values") /\ \A i \in 1..3 : ~Truthy(three[i])) =>
                 vec = Get(item, "values")

\* C8 witness: an item with an empty embedding, a vector and an
\* embedding_vector yields its vector, next to a skipped item that is no record.
C8_Witness ==
  /\ EmbedResponded
  /\ Len(DataOf(reply.raw).items) = 2
  /\ DataOf(reply.raw).items[1] = None
  /\ DataOf(reply.raw).items[2] =
       Dict(<<KV("embedding", EmptyList), KV("vector", Vec("2")),
              KV("embedding_vector", Vec("3"))>>)
  /\ out.kind = "result"
  /\ out.vectors = List(<<Vec("2")>>)

\* The first choice of a response whose choices is a non-empty list.
HasFirstChoice(raw) ==
  /\ IsDict(raw)
  /\ Has(raw, "choices")
  /\ IsList(Get(raw, "choices"))
  /\ Get(raw, "choices").items # <<>>

FirstChoice(raw) == Get(raw, "choices").items[1]

\* The first choice is a mapping with a `message` object.
HasMessageObject(raw) ==
  /\ HasFirstChoice(raw)
  /\ IsDict(FirstChoice(raw))
  /\ Has(FirstChoice(raw), "message")
  /\ IsDict(Get(FirstChoice(raw), "message"))

\* choices[0].message.content is a list of blocks.
HasBlockContent(raw) ==
  /\ HasMessageObject(raw)
  /\ IsList(Get(Get(FirstChoice(raw), "message"), "content"))

BlocksOf(raw) == Get(Get(FirstChoice(raw), "message"), "content").items

\* A block contributes text when it is a str or a mapping containing `text`.
Contributes(block) == IsStr(block) \/ (IsDict(block) /\ Has(block, "text"))

\* What a contributing block contributes: itself, or its `text` field.
Contribution(block) == IF IsStr(block) THEN block ELSE Get(block, "text")

\* The concatenation, in order and with no separator, of the contributions of
\* the blocks, each in its string form.
RECURSIVE Concatenated(_)
Concatenated(blocks) ==
  IF blocks = <<>> THEN <<>>
  ELSE IF Contributes(Head(blocks))
       THEN PyStr(Contribution(Head(blocks))).s \o Concatenated(Tail(blocks))
       ELSE Concatenated(Tail(blocks))

\* Every `text` field that contributes is a str.
TextFieldsAreStrings(blocks) ==
  \A i \in 1..Len(blocks) : Contributes(blocks[i]) => IsStr(Contribution(blocks[i]))

\* C9, as stated: when choices[0].message.content is a list of blocks, the
\* result's text is the concatenation, in order and with no separator, of every
\* str block and of the `text` field of every mapping block that has one.
C9_BlocksAreConcatenated ==
  (ChatReturned /\ HasBlockContent(reply.raw)) =>
    out.text = Str(Concatenated(BlocksOf(reply.raw)))

\* C9, amended: the text is that concatenation when every contributing `text`
\* field is a str; when one of them is not a str, the text is the stringified
\* choices of the response.
C9_StringBlocksAreConcatenated ==
  (ChatReturned /\ HasBlockContent(reply.raw)) =>
    IF TextFieldsAreStrings(BlocksOf(reply.raw))
    THEN out.text = Str(Concatenated(BlocksOf(reply.raw)))
    ELSE out.text = Str(PyRepr(Get(reply.raw, "choices")))

\* C9 witness: two mapping blocks with text "b" and "c" gave the text "bc".
C9_Witness ==
  /\ ChatReturned
  /\ HasBlockContent(reply.raw)
  /\ BlocksOf(reply.raw) =
       <<Dict(<<KV("text", Str(<<"b">>))>>),
         Dict(<<KV("type", Str(<<"t">>)), KV("text", Str(<<"c">>))>>)>>
  /\ out.text = Str(<<"b", "c">>)

\* C10: when the first choice (a mapping) has no `message` object, the result's
\* text is the value of its legacy `text` field, and the empty string when it
\* has no such field.
C10_LegacyTextFallback ==
  (ChatReturned /\ HasFirstChoice(reply.raw) /\ IsDict(FirstChoice(reply.raw))
     /\ ~HasMessageObject(reply.raw)) =>
    IF Has(FirstChoice(reply.raw), "text")
    THEN out.text = Get(FirstChoice(reply.raw), "text")
    ELSE out.text = EmptyStr

\* C10 witness: a first choice whose message is null and that has no legacy
\* text gave the empty string.
C10_Witness ==
  /\ ChatReturned
  /\ HasFirstChoice(reply.raw)
  /\ FirstChoice(reply.raw) = Dict(<<KV("message", None)>>)
  /\ out.text = EmptyStr

\* choices[0].message.content is a str.
HasStringContent(raw) ==
  /\ HasMessageObject(raw)
  /\ IsStr(Get(Get(FirstChoice(raw), "message"), "content"))

\* C11: when choices[0].message.content is a str s (the empty str included),
\* the result's text is s itself: not trimmed, not coerced, no fallback.
C11_StringContentIsText ==
  (ChatReturned /\ HasStringContent(reply.raw)) =>
    out.text = Get(Get(FirstChoice(reply.raw), "message"), "content")

\* C11 witness: the empty content gave the empty text, next to a legacy text
\* that was not used.
C11_Witness ==
  /\ ChatReturned
  /\ HasStringContent(reply.raw)
  /\ FirstChoice(reply.raw) =
       Dict(<<KV("message", Dict(<<KV("content", EmptyStr)>>)), KV("text", Str(<<"l">>))>>)
  /\ out.text = EmptyStr

\* The usage the lookup order names: the top-level `usage` field when it holds
\* a non-empty value, else the `usage` field of a mapping `meta` when that
\* holds a non-empty value, else the empty mapping.
UsageByPrecedence(raw) ==
  LET top == GetOr(raw, "usage", EmptyDict)
      meta == GetOr(raw, "meta", EmptyDict)
  IN IF Truthy(top) THEN top
     ELSE IF IsDict(meta) /\ Truthy(Get(meta, "usage")) THEN Get(meta, "usage")
     ELSE EmptyDict

\* C12: for every response, whatever its `meta` field is (absent, null, a
\* mapping without usage, not a mapping), a result is returned whose usage is
\* the top-level `usage`, else `meta.usage`, else the empty mapping; an absent
\* usage causes no error.
C12_UsageByPrecedenceNeverRaises ==
  ChatResponded =>
    /\ out.kind = "result"
    /\ out.usage = UsageByPrecedence(reply.raw)

\* The chat gateway has issued its request to the provider.
ChatRequested == gateway = "chat" /\ pc \in {"awaiting", "replied", "done"}

\* The fields the request declares: model (the default when omitted),
\* messages, temperature as a float, and max_tokens when it is given.
DeclaredFields(a) ==
  LET always == Dict(<<KV("model", ModelValue(ModelOrDefault(a.model))),
                       KV("messages", a.messages),
                       KV("temperature", PyFloat(a.temperature))>>)
  IN IF a.max_tokens # None THEN DictSet(always, "max_tokens", a.max_tokens) ELSE always

\* C13: for every extra_body entry, the body sent to the provider holds the
\* request-declared value when the key collides with a declared field (model,
\* messages, temperature, max_tokens), and the extra_body value otherwise.
C13_DeclaredFieldsTakePrecedence ==
  (ChatRequested /\ IsDict(args.extra_body)) =>
    \A i \in 1..Len(args.extra_body.kv) :
      LET e == args.extra_body.kv[i]
      IN /\ Has(request.body, e.k)
         /\ Get(request.body, e.k) =
              IF Has(DeclaredFields(args), e.k) THEN Get(DeclaredFields(args), e.k)
              ELSE e.v

\* C14: a call without max_tokens sends no token-limit field at all, and a
\* call with max_tokens = 0 sends the field with value 0.
C14_UnsetSendsNoTokenLimit ==
  (ChatRequested /\ ~(IsDict(args.extra_body) /\ Has(args.extra_body, "max_tokens"))) =>
    /\ args.max_tokens = None => ~Has(request.body, "max_tokens")
    /\ args.max_tokens = Num(<<"0">>) =>
         (Has(request.body, "max_tokens") /\ Get(request.body, "max_tokens") = Num(<<"0">>))

\* C15: once a gateway module (the chat gateway, the application's embedding
\* gateway) is loaded, its client holds the OpenRouter key and the OpenRouter
\* endpoint when an OpenRouter key is configured; otherwise, when a generic key
\* is configured, the generic key and the direct-provider endpoint.
C15_SamePrecedenceInBothGateways ==
  (gateway \in {"chat", "embed_app"} /\ pc # "unloaded") =>
    /\ OPENROUTER_API_KEY # Unset =>
         client = Client(OPENROUTER_BASE, OPENROUTER_API_KEY)
    /\ (OPENROUTER_API_KEY = Unset /\ OPENAI_API_KEY # Unset) =>
         client = Client(OPENAI_BASE_URL, OPENAI_API_KEY)

\* The invocation ended before the network: an empty embedding input, or an
\* embedding gateway without credential.
ShortCircuits ==
  /\ gateway \in {"embed_app", "embed_script"}
  /\ (args.texts = <<>> \/ client = NoClient)

\* C16: an invocation never issues more than one network request; when it has
\* ended it has issued exactly one, or none if it short-circuited (empty
\* embedding input, missing credential); and a failed request ends the
\* invocation with a raise, without a second request.
C16_ExactlyOneRequest ==
  /\ net <= 1
  /\ pc = "done" => net = (IF ShortCircuits THEN 0 ELSE 1)
  /\ (pc = "done" /\ reply.kind = "error") => (out.kind = "raise" /\ net = 1)

\* C17: in every result call_chat_completions returns, latency_ms is an
\* integer >= 0, equal to the clock reading taken right after the network call
\* returned minus the reading taken right before it, for every pair of readings
\* the wall clock can give.
C17_LatencyIsNonNegativeDifference ==
  ChatReturned =>
    /\ out.latency_ms \in Int
    /\ out.latency_ms = finish - start
    /\ out.latency_ms >= 0

\* llm_run has answered.
RunAnswered == http.endpoint = "llm_run" /\ http.status # 0

\* The assistant-role rows of the messages table.
AssistantRows == SelectSeq(db.messages, LAMBDA r : r.role = "assistant")

\* C18: every llm_run request for which the gateway returned a result, with or
\* without a session_id, answers 200 after persisting exactly one assistant
\* message (content the gateway's text, model the requested model) and logging
\* exactly one usage event that references it; the response's id and content
\* are that message's id and the gateway's text.
C18_RunPersistsAssistantAndUsage ==
  (RunAnswered /\ pc = "done" /\ out.kind = "result") =>
    /\ http.status = 200
    /\ Len(AssistantRows) = 1
    /\ AssistantRows[1].content = out.text
    /\ AssistantRows[1].model = ModelOrDefault(http.model)
    /\ Len(db.usage_events) = 1
    /\ db.usage_events[1].session_message_id = AssistantRows[1].id
    /\ http.body.id = ToString(AssistantRows[1].id)
    /\ http.body.content = out.text

\* llm_run has entered the provider call for a request that carries a
\* messages list.
RunForwarded ==
  /\ http.endpoint = "llm_run"
  /\ pc \in {"awaiting", "replied", "done"}
  /\ IsList(http.messages)

\* The user-role turns of a messages list, in order.
UserTurns(messages) ==
  SelectSeq(messages.items, LAMBDA m : IsDict(m) /\ Get(m, "role") = Str(<<"user">>))

\* The user-role rows of the messages table, in order.
UserRows == SelectSeq(db.messages, LAMBDA r : r.role = "user")

\* A block is a str or a mapping; the `text` field of a mapping is a str.
IsTextBlock(block) ==
  IsStr(block) \/ (IsDict(block) /\ (Has(block, "text") => IsStr(Get(block, "text"))))

\* Every turn is a mapping whose content is a str or a list of such blocks.
IsConversation(messages) ==
  \A i \in 1..Len(messages.items) :
    LET m == messages.items[i]
    IN /\ IsDict(m)
       /\ \/ IsStr(Get(m, "content"))
          \/ /\ IsList(Get(m, "content"))
             /\ \A j \in 1..Len(Get(m, "content").items) :
                  IsTextBlock(Get(m, "content").items[j])

\* The single string of a turn's content: a str is itself; a list gives its
\* str blocks and the `text` fields of its mapping blocks, in order, with one
\* space between them.
RECURSIVE BlockTexts(_)
BlockTexts(blocks) ==
  IF blocks = <<>> THEN <<>>
  ELSE IF IsStr(Head(blocks)) THEN <<Head(blocks).s>> \o BlockTexts(Tail(blocks))
  ELSE IF Has(Head(blocks), "text")
       THEN <<Get(Head(blocks), "text").s>> \o BlockTexts(Tail(blocks))
       ELSE BlockTexts(Tail(blocks))

Flattened(content) ==
  IF IsStr(content) THEN content ELSE Str(JoinChars(BlockTexts(content.items), <<" ">>))

\* C19: llm_run passes the messages list of the request to the chat gateway
\* as it received it (every turn and every block, in order), and the rows it
\* stores before the call are exactly the user-role turns, in order, each with
\* its content flattened to a single string.
C19_ForwardsAllStoresUserTurns ==
  (RunForwarded /\ IsConversation(http.messages)) =>
    /\ args.messages = http.messages
    /\ request.messages = http.messages
    /\ Get(request.body, "messages") = http.messages
    /\ Len(UserRows) = Len(UserTurns(http.messages))
    /\ \A k \in 1..Len(UserRows) :
         /\ UserRows[k].session_id = http.parent
         /\ UserRows[k].content = Flattened(Get(UserTurns(http.messages)[k], "content"))

\* The table in which an endpoint looks its parent record up.
ParentRows ==
  IF http.endpoint = "create_session" THEN StoredRecords.projects
  ELSE StoredRecords.sessions

\* An endpoint was handed the id of a parent record that does not exist.
ParentMissing ==
  /\ http.endpoint \in {"create_session", "append_message", "llm_run"}
  /\ http.parent # 0
  /\ ~\E r \in ParentRows : r.id = http.parent

\* C20: create_session_endpoint (project_id), append_session_message
\* (session_id) and llm_run (a supplied session_id) answer 404 when the parent
\* record does not exist, and then nothing has been written to the store and,
\* for llm_run, the provider has not been called.
C20_MissingParentAnswers404 ==
  ParentMissing =>
    /\ http.status = 404
    /\ http.detail = IF http.endpoint = "create_session"
                     THEN <<"project not found">> ELSE <<"session not found">>
    /\ db = StoredRecords
    /\ net = 0
    /\ request = NoRequest
    /\ pc = "ready"

\* C20 witness: llm_run was given an unknown session_id together with a user
\* turn to store, and answered 404.
C20_Witness ==
  /\ http.endpoint = "llm_run"
  /\ http.parent = Missing
  /\ http.messages = List(<<Turn("user", Str(<<"h", "i">>))>>)
  /\ http.status = 404
  /\ db.messages = <<>>
  /\ net = 0

\* C21: when the chat gateway raised ProviderError during llm_run, the
\* endpoint answers 502 with the error's message as detail; no assistant
\* message is persisted and no usage event is logged: the user-role messages
\* stored before the call are the only rows the request has written.
C21_ProviderErrorAnswers502 ==
  (RunAnswered /\ pc = "done" /\ out.kind = "raise" /\ out.exc = "ProviderError") =>
    /\ http.status = 502
    /\ http.detail = out.msg
    /\ CarriesMessage(http.detail, reply.msg)
    /\ http.body = NoBody
    /\ AssistantRows = <<>>
    /\ db.usage_events = <<>>
    /\ UserRows = db.messages
    /\ \A k \in 1..Len(db.messages) : db.messages[k].session_id = http.parent
    /\ [db EXCEPT !.messages = <<>>] = StoredRecords
    /\ net = 1

\* C21 witness: a timeout of the provider call was answered 502 after two
\* user turns had been stored, and nothing else was written.
C21_Witness ==
  /\ RunAnswered
  /\ reply.kind = "error"
  /\ reply.exc = "APITimeoutError"
  /\ http.status = 502
  /\ http.detail = <<"Request timed out.">>
  /\ Len(db.messages) = 2
  /\ db.usage_events = <<>>

====
